---- MODULE Spec2Model ----
(***************************************************************************)
(* Model of pinecone_setup.py: the CLI run                                 *)
(*   main: initialize_components -> setup_index -> upsert_documents        *)
(*         -> query_index (top_k=1) -> query_index (top_k=2)               *)
(* against a remote vector store that holds the index "starter-index".     *)
(* Every call that can raise is a step of its own; the except-handler of   *)
(* the enclosing function is part of the step that raises.                 *)
(***************************************************************************)
EXTENDS Integers, Sequences, FiniteSets, TLC

VARIABLES
    env,            \* value of PINECONE_API_KEY seen by os.getenv in this run
    store,          \* the remote store's view of the index named index_name
    pc,             \* position of the run inside main and its callees
    run,            \* number of the current run of the script
    pcClient,       \* TRUE once Pinecone(api_key=...) has been constructed
    model,          \* TRUE once SentenceTransformer(...) has been constructed
    index,          \* the handle returned by setup_index ("none" before)
    vectors,        \* the list upsert_documents builds
    calls,          \* remote-store calls issued in this run, in order
    queries,        \* one record per query_index call of this run
    failed,         \* message of the except-handler entered last ("" if none)
    exitCode,       \* process exit status (-1 while running)
    storeAtSetup,   \* store when setup_index was entered in this run
    storeAtUpsert,  \* store when upsert_documents was entered in this run
    upsertSnaps     \* stored records after each successful upsert, all runs

vars == <<env, store, pc, run, pcClient, model, index, vectors, calls,
          queries, failed, exitCode, storeAtSetup, storeAtUpsert, upsertSnaps>>

----------------------------------------------------------------------------
(* Bounds of the model *)

MaxRuns == 2

----------------------------------------------------------------------------
(* CONFIG *)

IndexName == "starter-index"

ConfigDimension == 384

\* Dimensions an index found at start-up may have.
Dimensions == {ConfigDimension, 1536}

\* The documents list of upsert_documents.
documents ==
    << [id |-> "doc1", text |-> "relativity", category |-> "science"],
       [id |-> "doc2", text |-> "aqueducts",  category |-> "history"],
       [id |-> "doc3", text |-> "quantum",    category |-> "physics"],
       [id |-> "doc4", text |-> "colosseum",  category |-> "history"] >>

\* model.encode(text).tolist(): a vector of the model's dimension, a
\* deterministic function of the text.
Encode(text) == [dim |-> ConfigDimension, of |-> text]

\* One element of the list comprehension of upsert_documents.
VectorOf(doc) ==
    [id |-> doc.id,
     values |-> Encode(doc.text),
     metadata |-> [text |-> doc.text, category |-> doc.category]]

----------------------------------------------------------------------------
(* The remote store *)

NoIndex == [exists |-> FALSE, dimension |-> 0, records |-> {}]

\* Records another writer may have left in an index of dimension d.
PreRecords(d) ==
    { [id |-> "old1", values |-> [dim |-> d, of |-> "legacy"],
       metadata |-> [text |-> "legacy"]],
      [id |-> "old2", values |-> [dim |-> d, of |-> "archive"],
       metadata |-> [text |-> "archive", category |-> "misc"]],
      [id |-> "doc1", values |-> [dim |-> d, of |-> "stale"],
       metadata |-> [text |-> "stale", category |-> "draft"]] }

InitialStores ==
    {NoIndex} \cup
    UNION { { [exists |-> TRUE, dimension |-> d, records |-> rs] :
                rs \in SUBSET PreRecords(d) } : d \in Dimensions }

Ids(recs) == {r.id : r \in recs}

\* delete_index(name): the index and every record in it are gone.
DeleteIndex(st) == NoIndex

\* Variant of CreateIndex: the dimension argument is ignored and the index
\* gets the dimension of a different embedding model.
CreateIndexOtherModel(st, d) ==
    [exists |-> TRUE, dimension |-> 1536, records |-> {}]

\* create_index(name, dimension, metric, spec): a new, empty index.
CreateIndex(st, d) == [exists |-> TRUE, dimension |-> d, records |-> {}]

\* The store accepts a batch only into an existing index whose dimension
\* every vector of the batch has.
Accepts(st, vecs) ==
    st.exists /\ \A v \in vecs : v.values.dim = st.dimension

\* Variant of Upsert: the batch is added without replacing by id.
InsertOnly(recs, vecs) == recs \cup vecs

\* index.upsert(vectors=...): a record of the batch replaces the stored
\* record of the same id.
Upsert(recs, vecs) == {r \in recs : r.id \notin Ids(vecs)} \cup vecs

\* index.query(vector, top_k, include_metadata=True).matches: top_k stored
\* records (all of them when fewer are stored), in the order the store's
\* similarity ranking gives them.
RECURSIVE Rankings(_, _)
Rankings(recs, k) ==
    IF k = 0 \/ recs = {} THEN {<<>>}
    ELSE UNION { { <<r>> \o t : t \in Rankings(recs \ {r}, k - 1) } : r \in recs }

----------------------------------------------------------------------------
(* main *)

\* Variant of MainFlow: the first query runs before the documents are
\* inserted.
MainFlowQueryFirst ==
    <<"initialize_components", "setup_index", "query1", "upsert_documents",
      "query2">>

\* The order in which main calls its steps.
MainFlow == <<"initialize_components", "setup_index", "upsert_documents",
              "query1", "query2">>

\* First position inside a step of main.
Entry(fn) ==
    CASE fn = "initialize_components" -> "init_key"
      [] fn = "setup_index"           -> "list1"
      [] fn = "upsert_documents"      -> "encode"
      [] fn = "query1"                -> "query1"
      [] fn = "query2"                -> "query2"

\* Where main continues when step fn returns.
Return(fn) ==
    LET i == CHOOSE j \in 1..Len(MainFlow) : MainFlow[j] = fn
    IN  IF i < Len(MainFlow) THEN Entry(MainFlow[i + 1]) ELSE "done"

Call(op, ok, ids, k) == [op |-> op, ok |-> ok, ids |-> ids, top_k |-> k]

\* except Exception as e: print(...); sys.exit(1)
Exit(msg) ==
    /\ failed' = msg
    /\ exitCode' = 1
    /\ pc' = "exited"

\* Step fn of main returns; after the last one main returns and the
\* process ends with status 0.
Proceed(fn) ==
    /\ pc' = Return(fn)
    /\ exitCode' = IF Return(fn) = "done" THEN 0 ELSE -1

Running(p) == pc = p /\ exitCode = -1

----------------------------------------------------------------------------
(* initialize_components *)

Unset == "<unset>"

EnvValues == {Unset, "", "pk-live"}

\* Variant of ApiKeyMissing: only the unset variable is rejected.
ApiKeyIsNone(k) == k = Unset

\* if not api_key
ApiKeyMissing(k) == k = Unset \/ k = ""

\* api_key = os.getenv(...); if not api_key: raise ValueError
InitKey ==
    /\ Running("init_key")
    /\ IF ApiKeyMissing(env)
       THEN Exit("Initialization failed")
       ELSE pc' = "init_client" /\ UNCHANGED <<failed, exitCode>>
    /\ UNCHANGED <<env, store, run, pcClient, model, index, vectors, calls,
                   queries, storeAtSetup, storeAtUpsert, upsertSnaps>>

\* pc = Pinecone(api_key=api_key)
InitClient ==
    /\ Running("init_client")
    /\ \E ok \in BOOLEAN :
         IF ok
         THEN pcClient' = TRUE /\ pc' = "init_model"
              /\ UNCHANGED <<failed, exitCode>>
         ELSE Exit("Initialization failed") /\ UNCHANGED pcClient
    /\ UNCHANGED <<env, store, run, model, index, vectors, calls, queries,
                   storeAtSetup, storeAtUpsert, upsertSnaps>>

\* model = SentenceTransformer(CONFIG["embedding_model"]); return pc, model
InitModel ==
    /\ Running("init_model")
    /\ \E ok \in BOOLEAN :
         IF ok
         THEN model' = TRUE /\ Proceed("initialize_components")
              /\ UNCHANGED failed
         ELSE Exit("Initialization failed") /\ UNCHANGED model
    /\ UNCHANGED <<env, store, run, pcClient, index, vectors, calls, queries,
                   storeAtSetup, storeAtUpsert, upsertSnaps>>

----------------------------------------------------------------------------
(* setup_index *)

\* Variant of WrongDimension: the comparison is inverted.
SameDimension(d) == d = ConfigDimension

\* Variant of WrongDimension: the descriptor is tested for truth only.
AnyDimension(d) == d # 0

\* index_info.dimension != CONFIG["dimension"]
WrongDimension(d) == d # ConfigDimension

\* CONFIG["index_name"] in pc.list_indexes().names()   (first listing)
List1 ==
    /\ Running("list1")
    /\ storeAtSetup' = store
    /\ \E ok \in BOOLEAN :
         /\ calls' = Append(calls, Call("list_indexes", ok, {}, 0))
         /\ IF ok
            THEN /\ pc' = IF store.exists THEN "describe" ELSE "list2"
                 /\ UNCHANGED <<failed, exitCode>>
            ELSE Exit("Index setup failed")
    /\ UNCHANGED <<env, store, run, pcClient, model, index, vectors, queries,
                   storeAtUpsert, upsertSnaps>>

\* index_info = pc.describe_index(...); if index_info.dimension != ...
Describe ==
    /\ Running("describe")
    /\ \E ok \in BOOLEAN :
         /\ calls' = Append(calls, Call("describe_index", ok /\ store.exists, {}, 0))
         /\ IF ok /\ store.exists
            THEN /\ pc' = IF WrongDimension(store.dimension)
                          THEN "delete" ELSE "list2"
                 /\ UNCHANGED <<failed, exitCode>>
            ELSE Exit("Index setup failed")
    /\ UNCHANGED <<env, store, run, pcClient, model, index, vectors, queries,
                   storeAtSetup, storeAtUpsert, upsertSnaps>>

\* pc.delete_index(CONFIG["index_name"])
Delete ==
    /\ Running("delete")
    /\ \E ok \in BOOLEAN :
         /\ calls' = Append(calls, Call("delete_index", ok /\ store.exists, {}, 0))
         /\ IF ok /\ store.exists
            THEN /\ store' = DeleteIndex(store)
                 /\ pc' = "list2"
                 /\ UNCHANGED <<failed, exitCode>>
            ELSE Exit("Index setup failed") /\ UNCHANGED store
    /\ UNCHANGED <<env, run, pcClient, model, index, vectors, queries,
                   storeAtSetup, storeAtUpsert, upsertSnaps>>

\* CONFIG["index_name"] not in pc.list_indexes().names()   (second listing)
List2 ==
    /\ Running("list2")
    /\ \E ok \in BOOLEAN :
         /\ calls' = Append(calls, Call("list_indexes", ok, {}, 0))
         /\ IF ok
            THEN /\ pc' = IF ~store.exists THEN "create" ELSE "bind"
                 /\ UNCHANGED <<failed, exitCode>>
            ELSE Exit("Index setup failed")
    /\ UNCHANGED <<env, store, run, pcClient, model, index, vectors, queries,
                   storeAtSetup, storeAtUpsert, upsertSnaps>>

\* pc.create_index(name=..., dimension=CONFIG["dimension"], ...)
Create ==
    /\ Running("create")
    /\ \E ok \in BOOLEAN :
         /\ calls' = Append(calls, Call("create_index", ok /\ ~store.exists, {}, 0))
         /\ IF ok /\ ~store.exists
            THEN /\ store' = CreateIndex(store, ConfigDimension)
                 /\ pc' = "bind"
                 /\ UNCHANGED <<failed, exitCode>>
            ELSE Exit("Index setup failed") /\ UNCHANGED store
    /\ UNCHANGED <<env, run, pcClient, model, index, vectors, queries,
                   storeAtSetup, storeAtUpsert, upsertSnaps>>

\* return pc.Index(CONFIG["index_name"])
Bind ==
    /\ Running("bind")
    /\ \E ok \in BOOLEAN :
         /\ calls' = Append(calls, Call("Index", ok, {}, 0))
         /\ IF ok
            THEN /\ index' = IndexName
                 /\ Proceed("setup_index")
                 /\ UNCHANGED failed
            ELSE Exit("Index setup failed") /\ UNCHANGED index
    /\ UNCHANGED <<env, store, run, pcClient, model, vectors, queries,
                   storeAtSetup, storeAtUpsert, upsertSnaps>>

----------------------------------------------------------------------------
(* upsert_documents *)

Range(seq) == {seq[i] : i \in 1..Len(seq)}

\* Variant of EncodeDoc: each vector is upserted as soon as it is encoded.
EncodeAndSendDoc ==
    /\ Running("encode")
    /\ LET i == Len(vectors) + 1
           v == VectorOf(documents[i])
       IN
       /\ storeAtUpsert' = IF i = 1 THEN store ELSE storeAtUpsert
       /\ \E ok \in BOOLEAN :
            IF ok /\ model /\ index = IndexName /\ Accepts(store, {v})
            THEN /\ vectors' = Append(vectors, v)
                 /\ store' = [store EXCEPT !.records = Upsert(@, {v})]
                 /\ pc' = IF i = Len(documents) THEN "upsert" ELSE "encode"
                 /\ UNCHANGED <<failed, exitCode>>
            ELSE Exit("Document upload failed") /\ UNCHANGED <<vectors, store>>
    /\ UNCHANGED <<env, run, pcClient, model, index, calls, queries,
                   storeAtSetup, upsertSnaps>>

\* One iteration of the list comprehension: model.encode(doc["text"]) for
\* the next document; nothing is sent to the store yet.
EncodeDoc ==
    /\ Running("encode")
    /\ LET i == Len(vectors) + 1 IN
       /\ storeAtUpsert' = IF i = 1 THEN store ELSE storeAtUpsert
       /\ \E ok \in BOOLEAN :
            IF ok /\ model
            THEN /\ vectors' = Append(vectors, VectorOf(documents[i]))
                 /\ pc' = IF i = Len(documents) THEN "upsert" ELSE "encode"
                 /\ UNCHANGED <<failed, exitCode>>
            ELSE Exit("Document upload failed") /\ UNCHANGED vectors
    /\ UNCHANGED <<env, store, run, pcClient, model, index, calls, queries,
                   storeAtSetup, upsertSnaps>>

\* index.upsert(vectors=vectors); return vectors
UpsertCall ==
    /\ Running("upsert")
    /\ \E ok \in BOOLEAN :
         LET vecs == Range(vectors)
             done == ok /\ index = IndexName /\ Accepts(store, vecs)
         IN  /\ calls' = Append(calls, Call("upsert", done, Ids(vecs), 0))
             /\ IF done
                THEN /\ store' = [store EXCEPT !.records = Upsert(@, vecs)]
                     /\ upsertSnaps' = Append(upsertSnaps, store'.records)
                     /\ Proceed("upsert_documents")
                     /\ UNCHANGED failed
                ELSE /\ Exit("Document upload failed")
                     /\ UNCHANGED <<store, upsertSnaps>>
    /\ UNCHANGED <<env, run, pcClient, model, index, vectors, queries,
                   storeAtSetup, storeAtUpsert>>

----------------------------------------------------------------------------
(* query_index *)

\* match.metadata['category'] and match.metadata['text'] both succeed.
Complete(match) == {"category", "text"} \subseteq DOMAIN match.metadata

ResultOf(match) ==
    [id |-> match.id,
     category |-> match.metadata.category,
     text |-> match.metadata.text]

\* The matches the for loop prints in full before a lookup raises.
RECURSIVE Printed(_)
Printed(matches) ==
    IF matches = <<>> \/ ~Complete(Head(matches)) THEN <<>>
    ELSE <<ResultOf(Head(matches))>> \o Printed(Tail(matches))

\* Variant of Outcome: the first match is read before the emptiness test,
\* so an empty answer raises.
OutcomeReadsFirst(matches) ==
    IF matches = <<>> THEN "failed"
    ELSE IF \A i \in 1..Len(matches) : Complete(matches[i])
         THEN "matches"
         ELSE "failed"

\* The branch query_index ends in once index.query has answered.
Outcome(matches) ==
    IF matches = <<>> THEN "no_matches"
    ELSE IF \A i \in 1..Len(matches) : Complete(matches[i])
         THEN "matches"
         ELSE "failed"

QueryRecord(k, called, responded, matches) ==
    [top_k |-> k, called |-> called, responded |-> responded,
     matches |-> matches,
     printed |-> Printed(matches),
     outcome |-> IF responded THEN Outcome(matches) ELSE "failed"]

\* query_index(index, model, query_text, top_k) called as step fn of main.
\* Its except-handler prints "Query failed" and returns.
QueryIndex(fn, text, k) ==
    /\ Running(Entry(fn))
    /\ \E encOk \in BOOLEAN, callOk \in BOOLEAN :
         LET called == encOk /\ model
             responded == /\ called /\ callOk /\ index = IndexName
                          /\ store.exists
                          /\ Encode(text).dim = store.dimension
         IN  /\ calls' = IF called
                         THEN Append(calls, Call("query", responded, {}, k))
                         ELSE calls
             /\ \E m \in IF responded THEN Rankings(store.records, k) ELSE {<<>>} :
                  LET q == QueryRecord(k, called, responded, m)
                  IN  /\ queries' = Append(queries, q)
                      /\ failed' = IF q.outcome = "failed"
                                   THEN "Query failed" ELSE failed
    /\ Proceed(fn)
    /\ UNCHANGED <<env, store, run, pcClient, model, index, vectors,
                   storeAtSetup, storeAtUpsert, upsertSnaps>>

\* query_index(index, model, "scientific theories")
Query1 == QueryIndex("query1", "scientific theories", 1)

\* query_index(index, model, "ancient engineering", top_k=2)
Query2 == QueryIndex("query2", "ancient engineering", 2)

----------------------------------------------------------------------------
(* The script is run again; the remote store keeps what the last run left. *)

StartRun ==
    /\ pc \in {"done", "exited"}
    /\ run < MaxRuns
    /\ run' = run + 1
    /\ env' \in EnvValues
    /\ pc' = Entry(MainFlow[1])
    /\ pcClient' = FALSE
    /\ model' = FALSE
    /\ index' = "none"
    /\ vectors' = <<>>
    /\ calls' = <<>>
    /\ queries' = <<>>
    /\ failed' = ""
    /\ exitCode' = -1
    /\ storeAtSetup' = store
    /\ storeAtUpsert' = store
    /\ UNCHANGED <<store, upsertSnaps>>

Init ==
    /\ env \in EnvValues
    /\ store \in InitialStores
    /\ pc = Entry(MainFlow[1])
    /\ run = 1
    /\ pcClient = FALSE
    /\ model = FALSE
    /\ index = "none"
    /\ vectors = <<>>
    /\ calls = <<>>
    /\ queries = <<>>
    /\ failed = ""
    /\ exitCode = -1
    /\ storeAtSetup = store
    /\ storeAtUpsert = store
    /\ upsertSnaps = <<>>

Next ==
    \/ InitKey
    \/ InitClient
    \/ InitModel
    \/ List1
    \/ Describe
    \/ Delete
    \/ List2
    \/ Create
    \/ Bind
    \/ EncodeDoc
    \/ UpsertCall
    \/ Query1
    \/ Query2
    \/ StartRun

Spec == Init /\ [][Next]_vars

----------------------------------------------------------------------------
(* query_index called on its own, with a handle on an index of the         *)
(* configured dimension (what setup_index returns) holding any records.    *)

QueryStores ==
    { [exists |-> TRUE, dimension |-> ConfigDimension,
       records |-> Upsert(rs, ds)] :
        rs \in SUBSET PreRecords(ConfigDimension),
        ds \in {{}, {VectorOf(documents[i]) : i \in 1..Len(documents)}} }

InitQuery ==
    /\ env = "pk-live"
    /\ store \in QueryStores
    /\ pc = Entry("query1")
    /\ run = 1
    /\ pcClient = TRUE
    /\ model = TRUE
    /\ index = IndexName
    /\ vectors = <<>>
    /\ calls = <<>>
    /\ queries = <<>>
    /\ failed = ""
    /\ exitCode = -1
    /\ storeAtSetup = store
    /\ storeAtUpsert = store
    /\ upsertSnaps = <<>>

NextQuery == Query1 \/ Query2

SpecQuery == InitQuery /\ [][NextQuery]_vars


----------------------------------------------------------------------------
(* Properties *)

SetupReturned == index = IndexName

CallsOf(op) == {i \in 1..Len(calls) : calls[i].op = op}

UpsertDone == \E i \in CallsOf("upsert") : calls[i].ok

DocumentIds == {documents[i].id : i \in 1..Len(documents)}

\* C1: once setup_index has returned its handle, the store holds an index
\* named index_name whose dimension is the configured one, whatever the
\* store held when setup_index was entered, and the handle names it.
C1_SetupGuaranteesDimension ==
    SetupReturned =>
        /\ store.exists
        /\ store.dimension = ConfigDimension
        /\ index = IndexName

C1_Witness ==
    /\ SetupReturned
    /\ pc = "encode" /\ vectors = <<>>
    /\ ~storeAtSetup.exists
    /\ store.exists

\* C2: with PINECONE_API_KEY unset or empty, the run never constructs the
\* client or the model and issues no remote call; once past the key check
\* it has exited with status 1.
C2_MissingKeyExitsFirst ==
    env \in {Unset, ""} =>
        /\ ~pcClient /\ ~model
        /\ calls = <<>>
        /\ \/ pc = "init_key" /\ exitCode = -1
           \/ pc = "exited" /\ exitCode = 1 /\ failed = "Initialization failed"

C2_Witness ==
    /\ env = ""
    /\ pc = "exited" /\ exitCode = 1
    /\ run = 1

\* C3: when setup_index found the index with another dimension, by the
\* time it has returned it has deleted the index and afterwards created
\* it, and no record the old index held is stored any more.
C3_MismatchRecreates ==
    (/\ SetupReturned
     /\ storeAtSetup.exists
     /\ storeAtSetup.dimension # ConfigDimension) =>
        /\ \E i \in CallsOf("delete_index"), j \in CallsOf("create_index") :
              i < j /\ calls[i].ok /\ calls[j].ok
        /\ store.records \cap storeAtSetup.records = {}
        /\ (~UpsertDone => store.records = {})

C3_Witness ==
    /\ SetupReturned
    /\ pc = "encode" /\ vectors = <<>>
    /\ storeAtSetup.exists
    /\ storeAtSetup.dimension # ConfigDimension
    /\ storeAtSetup.records # {}

\* C4 (as claimed): a remote call that fails is the last call of the run
\* and the process has exited with status 1.
C4_EveryRemoteErrorFatal ==
    \A i \in 1..Len(calls) :
        ~calls[i].ok => (i = Len(calls) /\ pc = "exited" /\ exitCode = 1)

\* C5: the index never holds two records of one id; after a successful
\* upsert every sample document's record is the one just built; and every
\* successful upsert leaves the same records as the one before it.
C5_UpsertIdempotentById ==
    /\ \A r \in store.records, t \in store.records : r.id = t.id => r = t
    /\ UpsertDone =>
          \A i \in 1..Len(documents) : VectorOf(documents[i]) \in store.records
    /\ \A i \in 1..Len(upsertSnaps), j \in 1..Len(upsertSnaps) :
          upsertSnaps[i] = upsertSnaps[j]

C5_Witness ==
    /\ Len(upsertSnaps) >= 2
    /\ UpsertDone
    /\ Cardinality(store.records) > Len(documents)

\* C6: the store is untouched while the embeddings are computed, the batch
\* is sent in one upsert call naming every document, and when
\* upsert_documents fails the index is as it was on entry and the process
\* has exited with status 1.
C6_IngestionAllOrNothing ==
    /\ (pc \in {"encode", "upsert"} /\ vectors # <<>>) => store = storeAtUpsert
    /\ Cardinality(CallsOf("upsert")) <= 1
    /\ \A i \in CallsOf("upsert") :
          calls[i].ids = DocumentIds /\ Len(vectors) = Len(documents)
    /\ failed = "Document upload failed" =>
          /\ store = storeAtUpsert
          /\ pc = "exited" /\ exitCode = 1

C6_Witness ==
    /\ failed = "Document upload failed"
    /\ Len(vectors) = 2
    /\ pc = "exited"

\* C7: a query answered from an index that holds no records ends in the
\* "No matches found" branch with nothing printed as a match, the process
\* has not exited with an error, and the index is as it was.
C7_EmptyIndexNoError ==
    \A i \in 1..Len(queries) :
        (queries[i].responded /\ storeAtSetup.records = {}) =>
            /\ queries[i].outcome = "no_matches"
            /\ queries[i].printed = <<>>
            /\ exitCode # 1 /\ pc # "exited"
            /\ store = storeAtSetup

C7_Witness ==
    /\ store.records = {}
    /\ Len(queries) = 2
    /\ queries[1].responded /\ queries[2].responded
    /\ failed = ""

\* C8 (as claimed): every answered query reports every match, and the
\* category it reports is the stored one, or "" when none is stored.
C8_CategoryDefaultsToEmpty ==
    \A i \in 1..Len(queries) :
        queries[i].responded =>
            /\ queries[i].outcome # "failed"
            /\ Len(queries[i].printed) = Len(queries[i].matches)
            /\ \A j \in 1..Len(queries[i].printed) :
                  queries[i].printed[j].category =
                      IF "category" \in DOMAIN queries[i].matches[j].metadata
                      THEN queries[i].matches[j].metadata.category
                      ELSE ""

IsIngestOrQuery(c) == c.op \in {"upsert", "query"}

\* C9: remote calls happen only after initialization; an upsert call
\* carries the four sample documents and follows the binding of the
\* handle; a query call follows a successful upsert, top_k=1 before
\* top_k=2; a run without any failure issues one upsert, then the two
\* queries.
C9_FixedOrder ==
    /\ calls # <<>> => (pcClient /\ model)
    /\ \A i \in CallsOf("upsert") :
          /\ calls[i].ids = {"doc1", "doc2", "doc3", "doc4"}
          /\ \E j \in CallsOf("Index") : j < i /\ calls[j].ok
    /\ Cardinality(CallsOf("upsert")) <= 1
    /\ \A i \in CallsOf("query") :
          /\ calls[i].top_k \in {1, 2}
          /\ \E j \in CallsOf("upsert") : j < i /\ calls[j].ok
    /\ \A i \in CallsOf("query"), j \in CallsOf("query") :
          i < j => (calls[i].top_k = 1 /\ calls[j].top_k = 2)
    /\ (pc = "done" /\ failed = "") =>
          LET s == SelectSeq(calls, IsIngestOrQuery)
          IN  /\ Len(s) = 3
              /\ s[1].op = "upsert"
              /\ s[2].op = "query" /\ s[2].top_k = 1
              /\ s[3].op = "query" /\ s[3].top_k = 2

C9_Witness ==
    /\ pc = "done" /\ exitCode = 0 /\ failed = ""
    /\ Len(queries) = 2

\* C10: when setup_index found the index with the configured dimension,
\* it has issued no delete and no create call, and until the upsert the
\* index is exactly as setup_index found it.
C10_MatchingIndexUntouched ==
    (/\ SetupReturned
     /\ storeAtSetup.exists
     /\ storeAtSetup.dimension = ConfigDimension) =>
        /\ CallsOf("delete_index") = {}
        /\ CallsOf("create_index") = {}
        /\ (~UpsertDone => store = storeAtSetup)

C10_Witness ==
    /\ SetupReturned
    /\ pc = "encode" /\ vectors = <<>>
    /\ storeAtSetup.exists
    /\ storeAtSetup.dimension = ConfigDimension
    /\ storeAtSetup.records # {}

====
